---- MODULE Spec2Model ----
(***************************************************************************)
(* Findora (src/findora/ai_studio_code.ts): the App component's view state, *)
(* the speech-recognition sessions it starts, the model requests that       *)
(* fetchProducts issues, and the handling of a model response.              *)
(*                                                                          *)
(* Strings are sequences of tokens.  A query is a sequence over " " and     *)
(* "a".  A response text is a sequence over                                 *)
(*   "N"      a newline character                                           *)
(*   "F"      the three characters ```                                      *)
(*   "J"      the four characters json                                      *)
(*   "null"   the JSON text null                                            *)
(*   "OBJ"    the JSON text {}                                              *)
(*   "P1"     the JSON text {"products":[p1]}                               *)
(*   "PN"     the JSON text {"products":null}                               *)
(* so that the opening fence is F J N and the closing fence is N F.         *)
(* The falsy JavaScript values null, undefined and "" of a string field are *)
(* all written ""; a message is the sequence of the pieces it is built      *)
(* from, and the falsy null of error is the empty sequence (the code only   *)
(* tests these with &&, || and if).                                         *)
(***************************************************************************)
EXTENDS Integers, Sequences, FiniteSets, TLC

VARIABLES
    supported,    \* line 12: SpeechRecognition is defined in this browser
    query,        \* line 28
    products,     \* line 29
    sources,      \* line 30
    isLoading,    \* line 31
    isListening,  \* line 32
    error,        \* line 33, "" is null
    searched,     \* line 34
    recs,         \* the recognition objects created at line 104, by phase:
                  \* "listening", "processing" (speechend fired, result
                  \* pending), "resulted" (result fired, speechend pending),
                  \* "done", "failed" (error fired)
    reqs,         \* the generateContent calls (line 51) not yet settled
    started,      \* number of generateContent calls issued so far
    response,     \* line 51: the response handled since the last search began
    productsFrom, \* history: the fetchProducts run that last wrote products
    sourcesFrom,  \* history: the fetchProducts run that last wrote sources
    errorFrom     \* history: the fetchProducts run that set error, 0 if none

vars == <<supported, query, products, sources, isLoading, isListening, error,
          searched, recs, reqs, started, response, productsFrom, sourcesFrom,
          errorFrom>>

(***************************************************************************)
(* Bounds                                                                   *)
(***************************************************************************)
MaxSearches == 2
MaxVoice == 2
MaxQuery == 2
MaxText == 3
MaxChunks == 3

(***************************************************************************)
(* Messages                                                                 *)
(***************************************************************************)
NoError == <<>>
ApiErrorMsg == <<"Urunler alinirken bir hata olustu. Lutfen tekrar deneyin.">>
FormatErrorMsg == <<"Yanitta bir hata olustu. Model beklenen formatta veri gondermedi.">>
UnsupportedMsg == <<"Tarayiciniz ses tanimayi desteklemiyor.">>

SpeechErrorCodes == {"no-speech", "aborted"}

\* line 124: `Ses tanima hatasi: ${event.error}`
SpeechErrorMsg(code) == <<"Ses tanima hatasi: ", code>>

(***************************************************************************)
(* Strings                                                                  *)
(***************************************************************************)
SeqsUpTo(S, n) == UNION {[1..k -> S] : k \in 0..n}

IsWs(c) == c \in {" ", "N"}

RECURSIVE TrimStart(_)
TrimStart(s) == IF s # <<>> /\ IsWs(Head(s)) THEN TrimStart(Tail(s)) ELSE s

RECURSIVE TrimEnd(_)
TrimEnd(s) == IF s # <<>> /\ IsWs(s[Len(s)]) THEN TrimEnd(SubSeq(s, 1, Len(s) - 1)) ELSE s

Trim(s) == TrimEnd(TrimStart(s))

BlankNoTrim(searchQuery) == searchQuery = <<>>

\* line 40: !searchQuery.trim()
Blank(searchQuery) == Trim(searchQuery) = <<>>

Queries == SeqsUpTo({" ", "a"}, MaxQuery)

(***************************************************************************)
(* Grounding chunks and sources (lines 59-67)                               *)
(***************************************************************************)
Uris == {"", "u1", "u2"}
Titles == {"", "t1"}

NoWebChunk == [web |-> FALSE, uri |-> "", title |-> ""]
Chunks == {NoWebChunk} \cup [web : {TRUE}, uri : Uris, title : Titles]

HasWebUri(chunk) == chunk.web /\ chunk.uri # ""

ToSourceNoFallback(chunk) == [uri |-> chunk.uri, title |-> chunk.title]

\* line 62: { uri: chunk.web.uri, title: chunk.web.title || chunk.web.uri }
ToSource(chunk) ==
    [uri |-> chunk.uri, title |-> IF chunk.title # "" THEN chunk.title ELSE chunk.uri]

\* lines 61-63: map to a source or null, then drop the nulls
WebSources(chunks) ==
    LET kept == SelectSeq(chunks, HasWebUri)
    IN  [i \in 1..Len(kept) |-> ToSource(kept[i])]

\* Map.prototype.set: a present key keeps its position and takes the new value
MapSet(m, item) ==
    IF \E i \in 1..Len(m) : m[i].uri = item.uri
    THEN [i \in 1..Len(m) |-> IF m[i].uri = item.uri THEN item ELSE m[i]]
    ELSE Append(m, item)

RECURSIVE MapOf(_, _)
MapOf(m, items) ==
    IF items = <<>> THEN m ELSE MapOf(MapSet(m, Head(items)), Tail(items))

UniqueSourcesNoDedup(webSources) == webSources

\* line 65: Array.from(new Map(webSources.map(item => [item.uri, item])).values())
UniqueSources(webSources) == MapOf(<<>>, webSources)

(***************************************************************************)
(* Response text (lines 69-82)                                              *)
(***************************************************************************)
JsonAtoms == {"null", "OBJ", "P1", "PN"}
TextTokens == {"N", "F", "J"} \cup JsonAtoms

Open == <<"F", "J", "N">>
Close == <<"N", "F">>

\* the positions where the characters of fence begin in s
Indices(s, fence) ==
    {i \in 1..(Len(s) - Len(fence) + 1) : SubSeq(s, i, i + Len(fence) - 1) = fence}

Min(S) == CHOOSE x \in S : \A y \in S : x <= y
Max(S) == CHOOSE x \in S : \A y \in S : x >= y

\* line 70: jsonText.match(/```json\n([\s\S]*?)\n```/): the leftmost opening
\* fence and the nearest closing fence after it
Match(jsonText) ==
    LET opens == Indices(jsonText, Open)
        o == Min(opens)
        closes == {c \in Indices(jsonText, Close) : c >= o + Len(Open)}
    IN  IF opens = {} \/ closes = {}
        THEN [found |-> FALSE, group |-> <<>>]
        ELSE [found |-> TRUE, group |-> SubSeq(jsonText, o + Len(Open), Min(closes) - 1)]

MatchGreedy(jsonText) ==
    LET opens == Indices(jsonText, Open)
        o == Min(opens)
        closes == {c \in Indices(jsonText, Close) : c >= o + Len(Open)}
    IN  IF opens = {} \/ closes = {}
        THEN [found |-> FALSE, group |-> <<>>]
        ELSE [found |-> TRUE, group |-> SubSeq(jsonText, o + Len(Open), Max(closes) - 1)]

ExtractJsonGreedy(text) ==
    LET jsonText == Trim(text)
        match == MatchGreedy(jsonText)
    IN  IF match.found /\ match.group # <<>> THEN match.group ELSE jsonText

\* lines 69-73
ExtractJson(text) ==
    LET jsonText == Trim(text)
        match == Match(jsonText)
    IN  IF match.found /\ match.group # <<>> THEN match.group ELSE jsonText

NotWs(c) == ~IsWs(c)

\* line 76: JSON.parse accepts one JSON value with whitespace around it
JsonParse(jsonText) ==
    LET core == SelectSeq(jsonText, NotWs)
    IN  IF Len(core) = 1 /\ core[1] \in JsonAtoms
        THEN [ok |-> TRUE, value |-> core[1]]
        ELSE [ok |-> FALSE, value |-> "null"]

\* jsonResponse.products: the field of the parsed value, "" when it is
\* undefined or null
ProductsField(value) ==
    IF value = "P1" THEN [truthy |-> TRUE, items |-> <<"p1">>]
    ELSE [truthy |-> FALSE, items |-> <<>>]

\* lines 75-82: what the inner try/catch leaves in products and error
ParseProducts(jsonText, err) ==
    LET parsed == JsonParse(jsonText)
    IN  IF parsed.ok /\ parsed.value # "null"
        THEN [products |-> IF ProductsField(parsed.value).truthy
                           THEN ProductsField(parsed.value).items ELSE <<>>,
              error |-> err, thrown |-> FALSE]
        ELSE [products |-> <<>>, error |-> FormatErrorMsg, thrown |-> TRUE]

(***************************************************************************)
(* Responses of generateContent                                             *)
(***************************************************************************)
Rejected == [ok |-> FALSE, hasChunks |-> FALSE, chunks |-> <<>>,
             hasText |-> FALSE, text |-> <<>>]

Resolved(hasChunks, chunks, hasText, text) ==
    [ok |-> TRUE, hasChunks |-> hasChunks, chunks |-> chunks,
     hasText |-> hasText, text |-> text]

Fenced(body) == Open \o body \o Close

\* texts are put together from these pieces
Pieces == {"N", "F", "OPEN", "CLOSE"} \cup JsonAtoms

RECURSIVE Spell(_)
Spell(pieces) ==
    IF pieces = <<>> THEN <<>>
    ELSE (IF Head(pieces) = "OPEN" THEN Open
          ELSE IF Head(pieces) = "CLOSE" THEN Close
          ELSE <<Head(pieces)>>) \o Spell(Tail(pieces))

\* every short text, and a fenced JSON value with text before and after it
ShortTexts == SeqsUpTo(TextTokens, MaxText)
              \cup {Spell(pieces) : pieces \in SeqsUpTo(Pieces, MaxText)}

Texts == ShortTexts
         \cup {before \o Fenced(<<a>>) \o after :
                 before \in {<<>>, <<"N">>, <<"null">>}, a \in JsonAtoms,
                 after \in ShortTexts}

ChunkLists == SeqsUpTo(Chunks, MaxChunks)

Responses ==
    {Rejected, Resolved(FALSE, <<>>, FALSE, <<>>)}
    \cup {Resolved(FALSE, <<>>, TRUE, t) : t \in Texts}
    \cup {Resolved(TRUE, c, TRUE, Fenced(<<"P1">>)) : c \in ChunkLists}
    \cup {Resolved(TRUE, <<[web |-> TRUE, uri |-> "u1", title |-> "t1"]>>, h, Close) :
            h \in BOOLEAN}

SampleResponses ==
    {Rejected,
     Resolved(FALSE, <<>>, TRUE, Fenced(<<"P1">>)),
     Resolved(TRUE, <<[web |-> TRUE, uri |-> "u1", title |-> ""]>>, TRUE, <<"OBJ">>),
     Resolved(TRUE, <<[web |-> TRUE, uri |-> "u1", title |-> "t1"]>>, TRUE, Open \o <<"P1">>),
     Resolved(TRUE, <<[web |-> TRUE, uri |-> "u1", title |-> "t1"]>>, FALSE, <<>>)}

(***************************************************************************)
(* The App component                                                        *)
(***************************************************************************)
Init ==
    /\ supported \in BOOLEAN
    /\ query = <<>>
    /\ products = <<>>
    /\ sources = <<>>
    /\ isLoading = FALSE
    /\ isListening = FALSE
    /\ error = NoError
    /\ searched = FALSE
    /\ recs = <<>>
    /\ reqs = {}
    /\ started = 0
    /\ response = Rejected
    /\ productsFrom = 0
    /\ sourcesFrom = 0
    /\ errorFrom = 0

\* lines 39-57: the synchronous part of fetchProducts, up to the await
fetchProducts(searchQuery) ==
    IF Blank(searchQuery)
    THEN UNCHANGED <<products, sources, isLoading, error, searched, reqs, started,
                     response, productsFrom, sourcesFrom, errorFrom>>
    ELSE /\ started < MaxSearches
         /\ response' = Rejected
         /\ isLoading' = TRUE
         /\ error' = NoError
         /\ products' = <<>>
         /\ sources' = <<>>
         /\ searched' = TRUE
         /\ started' = started + 1
         /\ reqs' = reqs \cup {started + 1}
         /\ productsFrom' = started + 1
         /\ sourcesFrom' = started + 1
         /\ errorFrom' = 0

\* line 178: onChange of the search input, which line 181 disables
onChange(value) ==
    /\ ~(isLoading \/ isListening)
    /\ value # query
    /\ query' = value
    /\ UNCHANGED <<supported, products, sources, isLoading, isListening, error,
                   searched, recs, reqs, started, response, productsFrom,
                   sourcesFrom, errorFrom>>

\* lines 92-95, behind the submit button that line 183 disables
handleTextSearch ==
    /\ ~(isLoading \/ isListening \/ Blank(query))
    /\ fetchProducts(query)
    /\ UNCHANGED <<supported, query, isListening, recs>>

\* lines 97-101, behind the voice button that line 191 disables
handleVoiceSearchUnsupported ==
    /\ ~isLoading
    /\ ~supported
    /\ error' = UnsupportedMsg
    /\ errorFrom' = 0
    /\ UNCHANGED <<supported, query, products, sources, isLoading, isListening,
                   searched, recs, reqs, started, response, productsFrom,
                   sourcesFrom>>

\* lines 102-128
handleVoiceSearch ==
    /\ ~isLoading
    /\ supported
    /\ ~(isListening \/ isLoading)
    /\ Len(recs) < MaxVoice
    /\ recs' = Append(recs, "listening")
    /\ isListening' = TRUE
    /\ error' = NoError
    /\ errorFrom' = 0
    /\ UNCHANGED <<supported, query, products, sources, isLoading, searched, reqs,
                   started, response, productsFrom, sourcesFrom>>

\* lines 112-116
onresult(i, speechResult) ==
    /\ recs[i] \in {"listening", "processing"}
    /\ recs' = [recs EXCEPT ![i] = IF recs[i] = "listening" THEN "resulted" ELSE "done"]
    /\ query' = speechResult
    /\ fetchProducts(speechResult)
    /\ UNCHANGED <<supported, isListening>>

\* lines 118-121
onspeechend(i) ==
    /\ recs[i] \in {"listening", "resulted"}
    /\ recs' = [recs EXCEPT ![i] = IF recs[i] = "listening" THEN "processing" ELSE "done"]
    /\ isListening' = FALSE
    /\ UNCHANGED <<supported, query, products, sources, isLoading, error, searched,
                   reqs, started, response, productsFrom, sourcesFrom, errorFrom>>

\* lines 123-126
onerror(i, code) ==
    /\ recs[i] \in {"listening", "processing"}
    /\ recs' = [recs EXCEPT ![i] = "failed"]
    /\ error' = SpeechErrorMsg(code)
    /\ errorFrom' = 0
    /\ isListening' = FALSE
    /\ UNCHANGED <<supported, query, products, sources, isLoading, searched, reqs,
                   started, response, productsFrom, sourcesFrom>>

renderStatusListeningFirst ==
    IF isListening THEN "listening"
    ELSE IF isLoading THEN "loader"
    ELSE IF error # <<>> THEN "error"
    ELSE IF searched /\ ~isLoading /\ Len(products) = 0 THEN "empty"
    ELSE IF ~searched THEN "prompt"
    ELSE "nothing"

\* lines 131-148
renderStatus ==
    IF isLoading THEN "loader"
    ELSE IF isListening THEN "listening"
    ELSE IF error # <<>> THEN "error"
    ELSE IF searched /\ ~isLoading /\ Len(products) = 0 THEN "empty"
    ELSE IF ~searched THEN "prompt"
    ELSE "nothing"

isLoadingNoFinally == isLoading

\* lines 87-89: finally { setIsLoading(false) }
isLoadingFinally == FALSE

\* lines 59-89: the continuation of fetchProducts after the await, for the
\* request id settled with response r
Continue(id, r) ==
    /\ id \in reqs
    /\ reqs' = reqs \ {id}
    /\ response' = r
    /\ IF ~r.ok
       THEN \* lines 84-86
            /\ error' = ApiErrorMsg
            /\ errorFrom' = id
            /\ UNCHANGED <<products, sources, productsFrom, sourcesFrom>>
       ELSE /\ IF r.hasChunks
               THEN /\ sources' = UniqueSources(WebSources(r.chunks))
                    /\ sourcesFrom' = id
               ELSE UNCHANGED <<sources, sourcesFrom>>
            /\ IF ~r.hasText
               THEN \* line 69 throws, lines 84-86 catch
                    /\ error' = ApiErrorMsg
                    /\ errorFrom' = id
                    /\ UNCHANGED <<products, productsFrom>>
               ELSE LET parsed == ParseProducts(ExtractJson(r.text), error)
                    IN  /\ products' = parsed.products
                        /\ productsFrom' = id
                        /\ error' = parsed.error
                        /\ errorFrom' = IF parsed.thrown THEN id ELSE errorFrom
    /\ isLoading' = isLoadingFinally
    /\ UNCHANGED <<supported, query, isListening, searched, recs, started>>

Settle == \E id \in reqs, r \in SampleResponses : Continue(id, r)

Next ==
    \/ \E value \in Queries : onChange(value)
    \/ handleTextSearch
    \/ handleVoiceSearchUnsupported
    \/ handleVoiceSearch
    \/ \E i \in 1..Len(recs), speechResult \in Queries : onresult(i, speechResult)
    \/ \E i \in 1..Len(recs) : onspeechend(i)
    \/ \E i \in 1..Len(recs), code \in SpeechErrorCodes : onerror(i, code)
    \/ Settle

Spec == Init /\ [][Next]_vars

\* every generateContent call settles, and its continuation then runs
FairSpec == Spec /\ WF_vars(Settle)

(***************************************************************************)
(* One search at a time from the text form, over the full set of responses  *)
(***************************************************************************)
SettleAny == \E id \in reqs, r \in Responses : Continue(id, r)

\* the user has typed a query
InitParse ==
    /\ supported \in BOOLEAN
    /\ query = <<"a">>
    /\ products = <<>>
    /\ sources = <<>>
    /\ isLoading = FALSE
    /\ isListening = FALSE
    /\ error = NoError
    /\ searched = FALSE
    /\ recs = <<>>
    /\ reqs = {}
    /\ started = 0
    /\ response = Rejected
    /\ productsFrom = 0
    /\ sourcesFrom = 0
    /\ errorFrom = 0

NextParse ==
    \/ handleTextSearch
    \/ SettleAny

SpecParse == InitParse /\ [][NextParse]_vars

(***************************************************************************)
(* Claims                                                                   *)
(***************************************************************************)
Settled == reqs' # reqs /\ response'.ok

\* C1: at most one model request is in flight at any time.
C1_SingleInFlight == Cardinality(reqs) <= 1

\* C2: isLoading is true if and only if a model request started by
\* fetchProducts has not yet completed.
C2_LoadingTracksRequest == isLoading <=> reqs # {}

\* C3: whenever fetchProducts stores sources from a response, the stored
\* list has no two entries with the same uri and has an entry for exactly
\* the web uris of the response's grounding chunks.
C3_SourcesDeduplicated ==
    [][(Settled /\ response'.hasChunks) =>
         /\ \A i, j \in 1..Len(sources') :
              sources'[i].uri = sources'[j].uri => i = j
         /\ {sources'[i].uri : i \in 1..Len(sources')}
              = {response'.chunks[k].uri :
                   k \in {n \in 1..Len(response'.chunks) :
                            response'.chunks[n].web /\ response'.chunks[n].uri # ""}}
      ]_vars

C3_Witness ==
    /\ response.ok /\ response.hasChunks
    /\ \E i, j \in 1..Len(response.chunks) :
         /\ i < j
         /\ response.chunks[i].web /\ response.chunks[j].web
         /\ response.chunks[i].uri = "u1" /\ response.chunks[j].uri = "u1"
    /\ \E k \in 1..Len(response.chunks) : response.chunks[k].uri = "u2"
    /\ Len(sources) = 2

\* C4: every stored grounding source has a non-empty uri and a non-empty
\* title; it comes from a chunk with that web uri, whose title it has, or
\* whose uri it has as title when that chunk's title is missing or empty.
C4_SourcesWellFormed ==
    [][(Settled /\ response'.hasChunks) =>
         \A i \in 1..Len(sources') :
            /\ sources'[i].uri # ""
            /\ sources'[i].title # ""
            /\ \E k \in 1..Len(response'.chunks) :
                 /\ response'.chunks[k].web
                 /\ response'.chunks[k].uri = sources'[i].uri
                 /\ sources'[i].title = IF response'.chunks[k].title = ""
                                        THEN response'.chunks[k].uri
                                        ELSE response'.chunks[k].title
      ]_vars

C4_Witness ==
    /\ response.ok /\ response.hasChunks
    /\ \E k \in 1..Len(response.chunks) : ~response.chunks[k].web
    /\ \E k \in 1..Len(response.chunks) :
         response.chunks[k].web /\ response.chunks[k].uri = ""
    /\ sources = <<[uri |-> "u2", title |-> "u2"]>>

\* The text the claim C5 parses: the content of the first fenced block of the
\* trimmed text if there is one, otherwise the whole trimmed text.
C5_Payload(text) ==
    LET t == Trim(text)
        opensAt(n) == n + 2 <= Len(t) /\ t[n] = "F" /\ t[n + 1] = "J" /\ t[n + 2] = "N"
        closesAt(n) == n + 1 <= Len(t) /\ t[n] = "N" /\ t[n + 1] = "F"
        blocks == {b \in (1..Len(t)) \X (1..Len(t)) :
                     /\ opensAt(b[1])
                     /\ b[1] + 3 <= b[2]
                     /\ closesAt(b[2])
                     /\ \A n \in 1..(b[1] - 1) : ~opensAt(n)
                     /\ \A n \in (b[1] + 3)..(b[2] - 1) : ~closesAt(n)}
    IN  IF blocks = {} THEN t
        ELSE LET b == CHOOSE c \in blocks : TRUE IN SubSeq(t, b[1] + 3, b[2] - 1)

C5_Value(text) == JsonParse(C5_Payload(text))

C5_Field(value) == IF value = "P1" THEN <<"p1">> ELSE <<>>

\* C5 as claimed: when the response text parses as JSON, products becomes its
\* products field, or the empty list if there is none, and no error is set;
\* when it does not parse, the format error is set, products is empty and
\* isLoading is false.
C5_ParsedOrFormatError ==
    [][(Settled /\ response'.hasText) =>
         IF C5_Value(response'.text).ok
         THEN products' = C5_Field(C5_Value(response'.text).value) /\ error' = error
         ELSE error' = FormatErrorMsg /\ products' = <<>> /\ ~isLoading'
      ]_vars

\* C5, amended: when the response text parses as JSON to a value other than
\* null, products becomes its products field, or the empty list if there is
\* none, and the run sets no error; when it does not parse, or parses to
\* null, the format error is set, products is empty and isLoading is false.
C5_ParsedNonNullOrFormatError ==
    [][(Settled /\ response'.hasText) =>
         IF C5_Value(response'.text).ok /\ C5_Value(response'.text).value # "null"
         THEN /\ products' = C5_Field(C5_Value(response'.text).value)
              /\ error' = error
              /\ ~isLoading'
         ELSE error' = FormatErrorMsg /\ products' = <<>> /\ ~isLoading'
      ]_vars

C5_Witness ==
    /\ response.ok /\ response.hasText
    /\ response.text = <<"N", "F", "J", "N", "null", "N", "F">>
    /\ error = FormatErrorMsg
    /\ products = <<>>
    /\ ~isLoading

\* C6: in every state reached after a search completes, the displayed
\* products and the displayed sources were both written by the run of the
\* most recently started search.
C6_NoCarryOver ==
    started > Cardinality(reqs) => productsFrom = started /\ sourcesFrom = started

\* C7: the status area shows the loader if isLoading; else the listening
\* message if isListening; else the error if one is set; else 'no products
\* found' if a search was made and products is empty; else the initial
\* prompt if no search was made; else nothing.
C7_StatusByPriority ==
    /\ renderStatus = "loader" <=> isLoading
    /\ renderStatus = "listening" <=> ~isLoading /\ isListening
    /\ renderStatus = "error" <=> ~isLoading /\ ~isListening /\ error # NoError
    /\ renderStatus = "empty" <=>
         ~isLoading /\ ~isListening /\ error = NoError /\ searched /\ products = <<>>
    /\ renderStatus = "prompt" <=>
         ~isLoading /\ ~isListening /\ error = NoError /\ ~searched
    /\ renderStatus = "nothing" <=>
         ~isLoading /\ ~isListening /\ error = NoError /\ searched /\ products # <<>>

C7_Witness == isLoading /\ isListening /\ searched /\ renderStatus = "loader"

\* C8: whenever a fetchProducts run has ended by setting an error message and
\* no later search has been started, the products list is empty.
C8_ErrorWithoutProducts ==
    (errorFrom # 0 /\ errorFrom = started) => products = <<>>

\* C9: every started model request is eventually followed by a state where
\* all started requests have settled and isLoading is false.
C9_LoadingEnds == (reqs # {}) ~> (reqs = {} /\ ~isLoading)

C9_Witness ==
    /\ started = 2
    /\ reqs = {}
    /\ ~isLoading
    /\ error = ApiErrorMsg
    /\ products # <<>>

\* C10: fetchProducts called with an empty or whitespace-only voice
\* transcript issues no model request and leaves isLoading, error, products,
\* sources and searched unchanged.
C10_BlankQueryNoEffect ==
    [][(/\ Len(recs') = Len(recs)
        /\ \E i \in 1..Len(recs) :
             recs[i] \in {"listening", "processing"} /\ recs'[i] \in {"resulted", "done"}
        /\ \A k \in 1..Len(query') : query'[k] = " ")
       => /\ reqs' = reqs
          /\ started' = started
          /\ UNCHANGED <<isLoading, error, products, sources, searched>>
      ]_vars

C10_Witness ==
    /\ \E i \in 1..Len(recs) : recs[i] \in {"resulted", "done"}
    /\ \E i \in 1..Len(recs) : recs[i] = "failed"
    /\ query = <<" ">>
    /\ started = 0
    /\ error # NoError

====
